---- MODULE Spec2Model ----
(***************************************************************************)
(* A model of census_parquet/process_blocks.py: the per-unit extractors    *)
(* process_pop and process_geo, and the driver main that fans them out as  *)
(* dask tasks, concatenates their outputs and writes the two global        *)
(* datasets.                                                               *)
(*                                                                         *)
(* Identifiers (GEOID) and region codes (FIPS) are sequences of one        *)
(* character strings, so that str.replace and the lexical order pandas and *)
(* dask sort by are computed and not assumed.  A real block identifier has *)
(* 15 digits; here it is the two digits of its region code and one more.   *)
(***************************************************************************)
EXTENDS Integers, Sequences, FiniteSets, TLC

VARIABLES
    files,      \* main: the archives found by the glob, in directory order
    pc,         \* main: the statement main is at
    geos,       \* main: the delayed process_geo tasks, in list order
    pops,       \* main: the delayed process_pop tasks, in list order
    tmp,        \* the files under tmp/: path -> [exists, rows]
    writers,    \* history: path -> the tasks that opened it for writing
    geo_files,  \* main: the paths dask.compute(*geos) returned
    pop_files,  \* main: the paths dask.compute(*pops) returned
    pop,        \* main: the concatenated population collection
    geo,        \* main: the concatenated geometry collection
    outputs,    \* the directory outputs/: [dir, pop, geo]
    popIn,      \* process_pop alone: the source files it is given
    popOut,     \* process_pop alone: what it persisted, or that it raised
    normIn,     \* the key replacement alone: the raw identifier
    normOut     \* the key replacement alone: the results of applying it

vars == << files, pc, geos, pops, tmp, writers, geo_files, pop_files, pop, geo,
           outputs, popIn, popOut, normIn, normOut >>

pipelineVars == << files, pc, geos, pops, tmp, writers, geo_files, pop_files,
                   pop, geo, outputs >>

\* ------------------------------------------------------------------ bounds

\* Archives the glob may find in one run.
MaxFiles == 2
\* Block records of one unit's source files in a run of main.
MaxRows == 3
\* Geo-header records given to process_pop when it is run alone.
MaxHdr == 2
\* Segment-1 records given to process_pop when it is run alone.
MaxSeg == 2
\* Pieces a raw identifier is put together from.
MaxPieces == 3

\* ------------------------------------------------------- strings and order

\* The code points of the characters identifiers are written with.
CharRank ==
    ("0" :> 48) @@ ("1" :> 49) @@ ("2" :> 50) @@ ("3" :> 51) @@ ("4" :> 52) @@
    ("5" :> 53) @@ ("6" :> 54) @@ ("7" :> 55) @@ ("8" :> 56) @@ ("9" :> 57) @@
    ("S" :> 83) @@ ("U" :> 85)

Digits == {"0", "1", "2", "3", "4", "5", "6", "7", "8", "9"}

\* Python's (and pandas') order of str: by code point, a proper prefix first.
RECURSIVE LexLess(_, _)
LexLess(a, b) ==
    IF a = << >> THEN b # << >>
    ELSE IF b = << >> THEN FALSE
    ELSE IF a[1] = b[1] THEN LexLess(Tail(a), Tail(b))
    ELSE CharRank[a[1]] < CharRank[b[1]]

LexLeq(a, b) == a = b \/ LexLess(a, b)

\* str.replace(pat, rep): every non-overlapping occurrence, left to right.
RECURSIVE StrReplace(_, _, _)
StrReplace(s, pat, rep) ==
    IF Len(s) < Len(pat) THEN s
    ELSE IF SubSeq(s, 1, Len(pat)) = pat
         THEN rep \o StrReplace(SubSeq(s, Len(pat) + 1, Len(s)), pat, rep)
         ELSE << s[1] >> \o StrReplace(Tail(s), pat, rep)

\* The literal of line 121.
GeoidPrefix == << "7", "5", "0", "0", "0", "0", "0", "U", "S" >>

\* A plausible slip: cut the prefix's length off the front, whatever is there.
NormalizeSlice(x) == SubSeq(x, Len(GeoidPrefix) + 1, Len(x))

\* block_df["GEOID"].str.replace("7500000US", "")
Normalize(x) == StrReplace(x, GeoidPrefix, << >>)

\* --------------------------------------------------------- the lookup table

\* statelookup, lines 25-78: region code -> abbreviation.
statelookup ==
    (<<"0", "1">> :> "AL") @@ (<<"0", "2">> :> "AK") @@ (<<"0", "4">> :> "AZ") @@
    (<<"0", "5">> :> "AR") @@ (<<"0", "6">> :> "CA") @@ (<<"0", "8">> :> "CO") @@
    (<<"0", "9">> :> "CT") @@ (<<"1", "0">> :> "DE") @@ (<<"1", "1">> :> "DC") @@
    (<<"1", "2">> :> "FL") @@ (<<"1", "3">> :> "GA") @@ (<<"1", "5">> :> "HI") @@
    (<<"1", "6">> :> "ID") @@ (<<"1", "7">> :> "IL") @@ (<<"1", "8">> :> "IN") @@
    (<<"1", "9">> :> "IA") @@ (<<"2", "0">> :> "KS") @@ (<<"2", "1">> :> "KY") @@
    (<<"2", "2">> :> "LA") @@ (<<"2", "3">> :> "ME") @@ (<<"2", "4">> :> "MD") @@
    (<<"2", "5">> :> "MA") @@ (<<"2", "6">> :> "MI") @@ (<<"2", "7">> :> "MN") @@
    (<<"2", "8">> :> "MS") @@ (<<"2", "9">> :> "MO") @@ (<<"3", "0">> :> "MT") @@
    (<<"3", "1">> :> "NE") @@ (<<"3", "2">> :> "NV") @@ (<<"3", "3">> :> "NH") @@
    (<<"3", "4">> :> "NJ") @@ (<<"3", "5">> :> "NM") @@ (<<"3", "6">> :> "NY") @@
    (<<"3", "7">> :> "NC") @@ (<<"3", "8">> :> "ND") @@ (<<"3", "9">> :> "OH") @@
    (<<"4", "0">> :> "OK") @@ (<<"4", "1">> :> "OR") @@ (<<"4", "2">> :> "PA") @@
    (<<"4", "4">> :> "RI") @@ (<<"4", "5">> :> "SC") @@ (<<"4", "6">> :> "SD") @@
    (<<"4", "7">> :> "TN") @@ (<<"4", "8">> :> "TX") @@ (<<"4", "9">> :> "UT") @@
    (<<"5", "0">> :> "VT") @@ (<<"5", "1">> :> "VA") @@ (<<"5", "3">> :> "WA") @@
    (<<"5", "4">> :> "WV") @@ (<<"5", "5">> :> "WI") @@ (<<"5", "6">> :> "WY") @@
    (<<"7", "2">> :> "PR")

\* file.stem.split("_")[2]: the third token of the archive's name.
FIPS(file) == file.stem[3]

\* A lookup table that leaves Puerto Rico out.
HasPopCoverageNoPR(file) == FIPS(file) \in (DOMAIN statelookup) \ {<< "7", "2" >>}

\* A driver that forgets the filter of line 180.
HasPopCoverageAll(file) == TRUE

\* Line 180 (and 164): the filter on the population tasks.
HasPopCoverage(file) == FIPS(file) \in DOMAIN statelookup

\* ------------------------------------------------------------- data frames

\* The summary level of a block record, line 113.
SUMLEV_BLOCK == 750

\* An attribute no segment-1 record supplied (pandas' NaN).
NaN == "NaN"

RECURSIVE InsertByGEOID(_, _)
InsertByGEOID(r, s) ==
    IF s = << >> THEN << r >>
    ELSE IF LexLess(r.GEOID, s[1].GEOID) THEN << r >> \o s
    ELSE << s[1] >> \o InsertByGEOID(r, Tail(s))

\* sort_index() on a frame indexed by GEOID (equal keys keep their order).
RECURSIVE SortIndex(_)
SortIndex(rows) ==
    IF rows = << >> THEN << >>
    ELSE InsertByGEOID(rows[Len(rows)], SortIndex(SubSeq(rows, 1, Len(rows) - 1)))

\* index.is_unique
IndexIsUnique(rows) ==
    \A i, j \in 1..Len(rows) : i # j => rows[i].GEOID # rows[j].GEOID

\* The rows of `right` with the record number of left row `l`, in right's order.
MatchesOf(l, right) ==
    LET Same(r) == r.LOGRECNO = l.LOGRECNO IN SelectSeq(right, Same)

\* An inner join in place of the left join.
RECURSIVE MergeInner(_, _)
MergeInner(left, right) ==
    IF left = << >> THEN << >>
    ELSE LET m == MatchesOf(left[1], right)
         IN [i \in 1..Len(m) |->
                [GEOID |-> left[1].GEOID, P0010001 |-> m[i].P0010001]]
            \o MergeInner(Tail(left), right)

\* pd.merge(left, right, how="left", on="LOGRECNO") and the drop of LOGRECNO,
\* lines 115-120: every left row, once per matching right row, or once with
\* empty attributes when none matches.
RECURSIVE MergeLeft(_, _)
MergeLeft(left, right) ==
    IF left = << >> THEN << >>
    ELSE LET m == MatchesOf(left[1], right)
         IN (IF m = << >>
             THEN << [GEOID |-> left[1].GEOID, P0010001 |-> NaN] >>
             ELSE [i \in 1..Len(m) |->
                      [GEOID |-> left[1].GEOID, P0010001 |-> m[i].P0010001]])
            \o MergeLeft(Tail(left), right)

\* dd.from_pandas(df, npartitions=1) / dask_geopandas.from_geopandas: sorts
\* the frame by its index (sort=True) into one partition.
FromPandas(rows) == SortIndex(rows)

Raised == [raised |-> TRUE, rows |-> << >>]

\* process_pop from the read of the two source files to the frame it persists
\* (lines 98-125); src is [ok, geo, seg]: whether both files can be read, the
\* geo-header records and the segment-1 records.
ProcessPop(src) ==
    IF ~src.ok THEN Raised
    ELSE LET IsBlock(r) == r.SUMLEV = SUMLEV_BLOCK
             geo_df     == SelectSeq(src.geo, IsBlock)
             merged     == MergeLeft(geo_df, src.seg)
             replaced   == [i \in 1..Len(merged) |->
                               [merged[i] EXCEPT !.GEOID = Normalize(@)]]
             block_df   == SortIndex(replaced)
         IN IF ~IndexIsUnique(block_df) THEN Raised
            ELSE [raised |-> FALSE, rows |-> FromPandas(block_df)]

\* process_geo from the read of the archive to the frame it persists (lines
\* 142-151); src is [ok, GEOID20]: whether the archive can be read and the
\* identifiers of its records, in file order.  No uniqueness is asserted.
ProcessGeo(src) ==
    IF ~src.ok THEN Raised
    ELSE LET gdf == [i \in 1..Len(src.GEOID20) |-> [GEOID |-> src.GEOID20[i]]]
         IN [raised |-> FALSE, rows |-> FromPandas(gdf)]

\* ------------------------------------------------- what the file system holds

\* Sequences over S of length lo..hi.
SeqsOf(S, lo, hi) == UNION {[1..n -> S] : n \in lo..hi}

DigitChar == << "1", "2", "3", "4", "5", "6", "7", "8", "9" >>

\* The i-th block of region c.
Key(c, i) == c \o << DigitChar[i] >>

\* A block of no region in the input directory, above all of theirs.
Stray == << "9", "9", "1" >>

CA == << "0", "6" >>
PR == << "7", "2" >>
VI == << "7", "8" >>

\* TABBLOCK20/*.zip: the archives that may be found.  Two carry the token 06;
\* 78 (the Virgin Islands) is no key of statelookup.
Archives ==
    { [stem |-> << "tl", "2020", CA, "tabblock20" >>],
      [stem |-> << "tl", "2020", PR, "tabblock20" >>],
      [stem |-> << "tl", "2020", VI, "tabblock20" >>],
      [stem |-> << "tl", "2020", CA, "tabblock20-copy" >>] }

Codes == {FIPS(f) : f \in Archives}

\* The first n blocks of region c, last first (a file is in no given order).
Descending(c, n) == [i \in 1..n |-> Key(c, n + 1 - i)]

Unreadable == [ok |-> FALSE, GEOID20 |-> << >>]

\* What an archive of region c may hold: 1..MaxRows blocks of the region, one
\* block twice, a block of another region, or nothing readable.
GeoSources(c) ==
    { [ok |-> TRUE, GEOID20 |-> Descending(c, n)] : n \in 1..MaxRows }
    \cup { [ok |-> TRUE, GEOID20 |-> << Key(c, 1), Key(c, 1) >>],
           [ok |-> TRUE, GEOID20 |-> << Stray, Key(c, 1) >>],
           Unreadable }

\* The geo-header record of the whole state (summary level 040).
StateRow(c) ==
    [LOGRECNO |-> 1, SUMLEV |-> 40,
     GEOID |-> << "0", "4", "0", "0", "0", "0", "0", "U", "S" >> \o c]

BlockRow(c, i, recno) ==
    [LOGRECNO |-> recno, SUMLEV |-> SUMLEV_BLOCK, GEOID |-> GeoidPrefix \o Key(c, i)]

SegRow(recno) == [LOGRECNO |-> recno, P0010001 |-> "12"]

UnreadablePop == [ok |-> FALSE, geo |-> << >>, seg |-> << >>]

\* What population_stats/ may hold for the region c: the state's record and
\* 1..MaxRows block records (last block first) with a segment-1 record each,
\* two block records with one identifier, or nothing readable.
PopSources(c) ==
    { [ok |-> TRUE,
       geo |-> << StateRow(c) >> \o [i \in 1..n |-> BlockRow(c, n + 1 - i, i + 1)],
       seg |-> [i \in 1..(n + 1) |-> SegRow(i)]] : n \in 1..MaxRows }
    \cup { [ok |-> TRUE,
            geo |-> << BlockRow(c, 1, 1), BlockRow(c, 1, 2) >>,
            seg |-> << SegRow(1), SegRow(2) >>],
           UnreadablePop }

\* The raw identifiers process_pop is tried on alone: with the prefix, and
\* one without it that the replacement leaves as it is.
RawIds == { GeoidPrefix \o Key(CA, 1), GeoidPrefix \o Key(CA, 2), Key(CA, 1) }

\* The logical record numbers of the geo-header records; segment 1 has a
\* record of one more, which no geo-header record carries.
RecNos == {1, 2}

HdrRows == [LOGRECNO : RecNos, SUMLEV : {SUMLEV_BLOCK, 40}, GEOID : RawIds]

SegRows == [LOGRECNO : RecNos \cup {3}, P0010001 : {"12"}]

PopInputs ==
    [ok : {TRUE}, geo : SeqsOf(HdrRows, 0, MaxHdr), seg : SeqsOf(SegRows, 0, MaxSeg)]
    \cup {UnreadablePop}

\* The pieces raw identifiers are put together from: the prefix, its two
\* halves, and a block identifier.
Pieces ==
    { GeoidPrefix,
      << "7", "5", "0", "0", "0" >>,
      << "0", "0", "U", "S" >>,
      Key(CA, 1) }

RECURSIVE Flatten(_)
Flatten(ss) == IF ss = << >> THEN << >> ELSE ss[1] \o Flatten(Tail(ss))

RawStrings == {Flatten(ps) : ps \in SeqsOf(Pieces, 0, MaxPieces)}

\* ------------------------------------------------------ idle values

NoFrame == [done |-> FALSE, raised |-> FALSE, rows |-> << >>]
NoPopIn == [ok |-> FALSE, geo |-> << >>, seg |-> << >>]
NoNorm == [n |-> 0, once |-> << >>, twice |-> << >>]

NoDdf == [parts |-> << >>, known |-> FALSE, divisions |-> << >>, spatial |-> FALSE]
NotWritten == [written |-> FALSE, parts |-> << >>]
NoFile == [exists |-> FALSE, rows |-> << >>]

\* -------------------------------------------------------------- the tasks

Paths == [kind : {"geo", "pop"}, code : Codes]

\* Every archive writes one fixed path.
GeoOutputFixed(file) == [kind |-> "geo", code |-> CA]

\* Line 153: Path(f"tmp/geo/{file.stem.split('_')[2]}.parquet")
GeoOutput(file) == [kind |-> "geo", code |-> FIPS(file)]

\* Line 127: Path(f"tmp/pop/{FIPS}.parquet")
PopOutput(file) == [kind |-> "pop", code |-> FIPS(file)]

\* dask.delayed(f)(file): a task not yet run.
Delayed(file) == [file |-> file, st |-> "pending", out |-> << >>]

\* The region whose files population_stats/ names by the abbreviation.
RegionOf(ABBR) == CHOOSE c \in DOMAIN statelookup : statelookup[c] = ABBR

\* dask.compute returns although a task failed (the failed unit is skipped).
Settled(tasks) == \A i \in 1..Len(tasks) : tasks[i].st \in {"done", "failed"}

\* dask.compute returns once every task was started.
AllStarted(tasks) == \A i \in 1..Len(tasks) : tasks[i].st # "pending"

\* dask.compute(*tasks), lines 187 and 191, returns when every task returned.
Completed(tasks) == \A i \in 1..Len(tasks) : tasks[i].st = "done"

\* dask.compute(*tasks) raises what a task raised.
SomeFailed(tasks) == \E i \in 1..Len(tasks) : tasks[i].st = "failed"

\* ------------------------------------------------------ dask collections

RECURSIVE InsertPath(_, _)
InsertPath(p, s) ==
    IF s = << >> THEN << p >>
    ELSE IF LexLess(p.code, s[1].code) THEN << p >> \o s
    ELSE << s[1] >> \o InsertPath(p, Tail(s))

\* sorted(paths), lines 193-194: paths of one directory, by their file name.
RECURSIVE Sorted(_)
Sorted(paths) ==
    IF paths = << >> THEN << >>
    ELSE InsertPath(paths[Len(paths)], Sorted(SubSeq(paths, 1, Len(paths) - 1)))

\* dd.read_parquet(f) of a one-partition data set: its divisions are the
\* first and last index value of the partition, from the file's statistics.
ReadParquet(file) ==
    [parts     |-> << file.rows >>,
     known     |-> file.rows # << >>,
     divisions |-> IF file.rows = << >> THEN << >>
                   ELSE << file.rows[1].GEOID, file.rows[Len(file.rows)].GEOID >>,
     spatial   |-> FALSE]

\* A concatenation that keeps the divisions whatever their order.
ConcatKnownUnordered(dfs) == \A i \in 1..Len(dfs) : dfs[i].known

\* dd.concat: the result has known divisions when every input has and each
\* input's last division is below the next input's first.
ConcatKnown(dfs) ==
    /\ \A i \in 1..Len(dfs) : dfs[i].known
    /\ \A i \in 1..(Len(dfs) - 1) :
          LexLess(dfs[i].divisions[Len(dfs[i].divisions)], dfs[i + 1].divisions[1])

\* dd.concat(dfs), lines 193-194: the partitions of the inputs, in order.
Concat(dfs) ==
    IF Len(dfs) = 1 THEN dfs[1]
    ELSE LET known == ConcatKnown(dfs)
         IN [parts     |-> Flatten([i \in 1..Len(dfs) |-> dfs[i].parts]),
             known     |-> known,
             divisions |-> IF ~known THEN << >>
                           ELSE Flatten([i \in 1..Len(dfs) |->
                                   SubSeq(dfs[i].divisions, 1, Len(dfs[i].divisions) - 1)])
                                \o << dfs[Len(dfs)].divisions[Len(dfs[Len(dfs)].divisions)] >>,
             spatial   |-> FALSE]

\* known_divisions of a data set read back from outputs/, lines 212-216: the
\* statistics of no partition are empty and start below the one before's end.
ReadBackKnown(parts) ==
    /\ \A i \in 1..Len(parts) : parts[i] # << >>
    /\ \A i \in 1..(Len(parts) - 1) :
          LexLeq(parts[i][Len(parts[i])].GEOID, parts[i + 1][1].GEOID)

\* ------------------------------------------------------------------- main

\* The listings of TABBLOCK20/: up to MaxFiles archives, in any order.
Listings ==
    { s \in SeqsOf(Archives, 0, MaxFiles) :
        \A i, j \in 1..Len(s) : i # j => s[i] # s[j] }

PipelineIdle ==
    /\ popIn = NoPopIn
    /\ popOut = NoFrame
    /\ normIn = << >>
    /\ normOut = NoNorm

Init ==
    /\ files \in Listings
    /\ pc = "start"
    /\ geos = << >>
    /\ pops = << >>
    /\ tmp = [p \in Paths |-> NoFile]
    /\ writers = [p \in Paths |-> {}]
    /\ geo_files = << >>
    /\ pop_files = << >>
    /\ pop = NoDdf
    /\ geo = NoDdf
    /\ outputs = [dir |-> FALSE, pop |-> NotWritten, geo |-> NotWritten]
    /\ PipelineIdle

\* Lines 175-183: the two task lists and the assertions that neither is empty.
Dispatch ==
    /\ pc = "start"
    /\ LET covered == SelectSeq(files, HasPopCoverage)
       IN /\ geos' = [i \in 1..Len(files) |-> Delayed(files[i])]
          /\ pops' = [i \in 1..Len(covered) |-> Delayed(covered[i])]
          /\ pc' = IF Len(files) = 0 \/ Len(covered) = 0
                   THEN "failed" ELSE "compute_geo"
    /\ UNCHANGED << files, tmp, writers, geo_files, pop_files, pop, geo, outputs,
                    popIn, popOut, normIn, normOut >>

\* process_geo up to the opening of its output, lines 134-154: it raises on an
\* archive it cannot read.
GeoStart(i) ==
    /\ pc = "compute_geo"
    /\ geos[i].st = "pending"
    /\ \E src \in GeoSources(FIPS(geos[i].file)) :
          LET r == ProcessGeo(src)
          IN IF r.raised
             THEN /\ geos' = [geos EXCEPT ![i].st = "failed"]
                  /\ UNCHANGED writers
             ELSE /\ geos' = [geos EXCEPT ![i].st = "running", ![i].out = r.rows]
                  /\ writers' = [writers EXCEPT ![GeoOutput(geos[i].file)] =
                                    @ \cup {<< "geo", i >>}]
    /\ UNCHANGED << files, pc, pops, tmp, geo_files, pop_files, pop, geo, outputs,
                    popIn, popOut, normIn, normOut >>

\* process_geo's to_parquet and return, lines 155-157.
GeoFinish(i) ==
    /\ pc = "compute_geo"
    /\ geos[i].st = "running"
    /\ tmp' = [tmp EXCEPT ![GeoOutput(geos[i].file)] =
                  [exists |-> TRUE, rows |-> geos[i].out]]
    /\ geos' = [geos EXCEPT ![i].st = "done", ![i].out = << >>]
    /\ UNCHANGED << files, pc, pops, writers, geo_files, pop_files, pop, geo,
                    outputs, popIn, popOut, normIn, normOut >>

\* Line 187 returns the tasks' paths, in the order of the list.
ComputeGeoReturn ==
    /\ pc = "compute_geo"
    /\ Completed(geos)
    /\ LET ran == LET Done(t) == t.st = "done" IN SelectSeq(geos, Done)
       IN geo_files' = [i \in 1..Len(ran) |-> GeoOutput(ran[i].file)]
    /\ pc' = "compute_pop"
    /\ UNCHANGED << files, geos, pops, tmp, writers, pop_files, pop, geo, outputs,
                    popIn, popOut, normIn, normOut >>

\* Line 187 raises.
ComputeGeoRaise ==
    /\ pc = "compute_geo"
    /\ SomeFailed(geos)
    /\ pc' = "failed"
    /\ UNCHANGED << files, geos, pops, tmp, writers, geo_files, pop_files, pop,
                    geo, outputs, popIn, popOut, normIn, normOut >>

\* process_pop up to the opening of its output, lines 82-128: statelookup[FIPS]
\* raises on a code that is no key, and so do a source file that cannot be
\* read and the assertion that the index is unique.
PopStart(i) ==
    /\ pc = "compute_pop"
    /\ pops[i].st = "pending"
    /\ LET code == FIPS(pops[i].file)
       IN IF code \notin DOMAIN statelookup
          THEN /\ pops' = [pops EXCEPT ![i].st = "failed"]
               /\ UNCHANGED writers
          ELSE \E src \in PopSources(RegionOf(statelookup[code])) :
                  LET r == ProcessPop(src)
                  IN IF r.raised
                     THEN /\ pops' = [pops EXCEPT ![i].st = "failed"]
                          /\ UNCHANGED writers
                     ELSE /\ pops' = [pops EXCEPT ![i].st = "running",
                                                  ![i].out = r.rows]
                          /\ writers' = [writers EXCEPT ![PopOutput(pops[i].file)] =
                                            @ \cup {<< "pop", i >>}]
    /\ UNCHANGED << files, pc, geos, tmp, geo_files, pop_files, pop, geo, outputs,
                    popIn, popOut, normIn, normOut >>

\* process_pop's to_parquet and return, lines 129-131.
PopFinish(i) ==
    /\ pc = "compute_pop"
    /\ pops[i].st = "running"
    /\ tmp' = [tmp EXCEPT ![PopOutput(pops[i].file)] =
                  [exists |-> TRUE, rows |-> pops[i].out]]
    /\ pops' = [pops EXCEPT ![i].st = "done", ![i].out = << >>]
    /\ UNCHANGED << files, pc, geos, writers, geo_files, pop_files, pop, geo,
                    outputs, popIn, popOut, normIn, normOut >>

\* Line 191 returns the tasks' paths, in the order of the list.
ComputePopReturn ==
    /\ pc = "compute_pop"
    /\ Completed(pops)
    /\ LET ran == LET Done(t) == t.st = "done" IN SelectSeq(pops, Done)
       IN pop_files' = [i \in 1..Len(ran) |-> PopOutput(ran[i].file)]
    /\ pc' = "concat"
    /\ UNCHANGED << files, geos, pops, tmp, writers, geo_files, pop, geo, outputs,
                    popIn, popOut, normIn, normOut >>

\* Line 191 raises.
ComputePopRaise ==
    /\ pc = "compute_pop"
    /\ SomeFailed(pops)
    /\ pc' = "failed"
    /\ UNCHANGED << files, geos, pops, tmp, writers, geo_files, pop_files, pop,
                    geo, outputs, popIn, popOut, normIn, normOut >>

\* Lines 193-194: read every per-unit data set, in the order of the sorted
\* paths, and concatenate.  Reading a path that is not there raises.
ConcatAll ==
    /\ pc = "concat"
    /\ LET ps == Sorted(pop_files)
           gs == Sorted(geo_files)
       IN IF \/ \E i \in 1..Len(ps) : ~tmp[ps[i]].exists
             \/ \E i \in 1..Len(gs) : ~tmp[gs[i]].exists
          THEN /\ pc' = "failed"
               /\ UNCHANGED << pop, geo >>
          ELSE /\ pop' = Concat([i \in 1..Len(ps) |-> ReadParquet(tmp[ps[i]])])
               /\ geo' = Concat([i \in 1..Len(gs) |-> ReadParquet(tmp[gs[i]])])
               /\ pc' = "assert"
    /\ UNCHANGED << files, geos, pops, tmp, writers, geo_files, pop_files, outputs,
                    popIn, popOut, normIn, normOut >>

\* Lines 195-196: assert pop.known_divisions; assert geo.known_divisions.
AssertKnownDivisions ==
    /\ pc = "assert"
    /\ pc' = IF pop.known /\ geo.known THEN "mkdir" ELSE "failed"
    /\ UNCHANGED << files, geos, pops, tmp, writers, geo_files, pop_files, pop,
                    geo, outputs, popIn, popOut, normIn, normOut >>

\* Line 198: Path("outputs").mkdir(exist_ok=True)
Mkdir ==
    /\ pc = "mkdir"
    /\ outputs' = [outputs EXCEPT !.dir = TRUE]
    /\ pc' = "write_pop"
    /\ UNCHANGED << files, geos, pops, tmp, writers, geo_files, pop_files, pop,
                    geo, popIn, popOut, normIn, normOut >>

\* Line 201: pop.to_parquet("outputs/census_blocks_population.parquet")
WritePop ==
    /\ pc = "write_pop"
    /\ outputs' = [outputs EXCEPT !.pop = [written |-> TRUE, parts |-> pop.parts]]
    /\ pc' = "spatial"
    /\ UNCHANGED << files, geos, pops, tmp, writers, geo_files, pop_files, pop,
                    geo, popIn, popOut, normIn, normOut >>

\* Line 205: geo.calculate_spatial_partitions()
SpatialPartitions ==
    /\ pc = "spatial"
    /\ geo' = [geo EXCEPT !.spatial = TRUE]
    /\ pc' = "write_geo"
    /\ UNCHANGED << files, geos, pops, tmp, writers, geo_files, pop_files, pop,
                    outputs, popIn, popOut, normIn, normOut >>

\* Line 209: geo.to_parquet("outputs/census_blocks_geo.parquet")
WriteGeo ==
    /\ pc = "write_geo"
    /\ outputs' = [outputs EXCEPT !.geo = [written |-> TRUE, parts |-> geo.parts]]
    /\ pc' = "validate"
    /\ UNCHANGED << files, geos, pops, tmp, writers, geo_files, pop_files, pop,
                    geo, popIn, popOut, normIn, normOut >>

\* Lines 211-216: both outputs are read back and their divisions asserted.
Validate ==
    /\ pc = "validate"
    /\ pc' = IF ReadBackKnown(outputs.pop.parts) /\ ReadBackKnown(outputs.geo.parts)
             THEN "done" ELSE "failed"
    /\ UNCHANGED << files, geos, pops, tmp, writers, geo_files, pop_files, pop,
                    geo, outputs, popIn, popOut, normIn, normOut >>

Next ==
    \/ Dispatch
    \/ \E i \in 1..Len(geos) : GeoStart(i)
    \/ \E i \in 1..Len(geos) : GeoFinish(i)
    \/ ComputeGeoReturn
    \/ ComputeGeoRaise
    \/ \E i \in 1..Len(pops) : PopStart(i)
    \/ \E i \in 1..Len(pops) : PopFinish(i)
    \/ ComputePopReturn
    \/ ComputePopRaise
    \/ ConcatAll
    \/ AssertKnownDivisions
    \/ Mkdir
    \/ WritePop
    \/ SpatialPartitions
    \/ WriteGeo
    \/ Validate

Spec == Init /\ [][Next]_vars

\* ------------------------------------------------------ process_pop alone

MainIdle ==
    /\ files = << >>
    /\ pc = "idle"
    /\ geos = << >>
    /\ pops = << >>
    /\ tmp = [p \in Paths |-> NoFile]
    /\ writers = [p \in Paths |-> {}]
    /\ geo_files = << >>
    /\ pop_files = << >>
    /\ pop = NoDdf
    /\ geo = NoDdf
    /\ outputs = [dir |-> FALSE, pop |-> NotWritten, geo |-> NotWritten]

InitPop ==
    /\ MainIdle
    /\ popIn \in PopInputs
    /\ popOut = NoFrame
    /\ normIn = << >>
    /\ normOut = NoNorm

\* One call of process_pop, lines 82-131, on the source files popIn.
RunProcessPop ==
    /\ ~popOut.done
    /\ LET r == ProcessPop(popIn)
       IN popOut' = [done |-> TRUE, raised |-> r.raised, rows |-> r.rows]
    /\ UNCHANGED << pipelineVars, popIn, normIn, normOut >>

NextPop == RunProcessPop

SpecPop == InitPop /\ [][NextPop]_vars

\* ----------------------------------------------- the key replacement alone

InitNorm ==
    /\ MainIdle
    /\ popIn = NoPopIn
    /\ popOut = NoFrame
    /\ normIn \in RawStrings
    /\ normOut = NoNorm

\* Line 121 on the raw identifier.
NormalizeOnce ==
    /\ normOut.n = 0
    /\ normOut' = [normOut EXCEPT !.n = 1, !.once = Normalize(normIn)]
    /\ UNCHANGED << pipelineVars, popIn, popOut, normIn >>

\* Line 121 on its own result.
NormalizeAgain ==
    /\ normOut.n = 1
    /\ normOut' = [normOut EXCEPT !.n = 2, !.twice = Normalize(normOut.once)]
    /\ UNCHANGED << pipelineVars, popIn, popOut, normIn >>

NextNorm == NormalizeOnce \/ NormalizeAgain

SpecNorm == InitNorm /\ [][NextNorm]_vars

\* ------------------------------------------------------------- properties

KeysOf(rows) == {rows[i].GEOID : i \in 1..Len(rows)}

\* The region codes of a task list.
CodesOf(tasks) == {FIPS(tasks[i].file) : i \in 1..Len(tasks)}

\* The codes of S, lowest first.
Ascending(S) ==
    CHOOSE s \in [1..Cardinality(S) -> S] :
        \A i, j \in 1..Cardinality(S) : i < j => LexLess(s[i], s[j])

\* The per-unit data sets under tmp/<kind>/, one partition each, by code.
PerUnitInCodeOrder(kind, tasks) ==
    LET asc == Ascending(CodesOf(tasks))
    IN [i \in 1..Len(asc) |-> tmp[[kind |-> kind, code |-> asc[i]]].rows]

\* Every key of a partition is below every key of each later partition.
DisjointIncreasing(parts) ==
    \A i, j \in 1..Len(parts) :
        i < j => \A a \in 1..Len(parts[i]), b \in 1..Len(parts[j]) :
                    LexLess(parts[i][a].GEOID, parts[j][b].GEOID)

GoodConcat(kind, tasks, parts) ==
    /\ parts = PerUnitInCodeOrder(kind, tasks)
    /\ DisjointIncreasing(parts)

\* C1: once anything exists under outputs/, both concatenations are the
\* per-unit data sets in ascending region-code order with pairwise disjoint,
\* strictly increasing key ranges, and so is every global data set written.
C1_GlobalDivisions ==
    /\ outputs.dir => /\ GoodConcat("pop", pops, pop.parts)
                      /\ GoodConcat("geo", geos, geo.parts)
    /\ outputs.pop.written => GoodConcat("pop", pops, outputs.pop.parts)
    /\ outputs.geo.written => GoodConcat("geo", geos, outputs.geo.parts)

\* A finished run over two units found in descending order of their codes.
C1_Witness ==
    /\ pc = "done"
    /\ Len(files) = 2
    /\ LexLess(FIPS(files[2]), FIPS(files[1]))
    /\ Len(outputs.pop.parts) = 2
    /\ Len(outputs.geo.parts) = 2

Dispatched == pc \notin {"start", "idle"}

\* The rows of the global data set whose keys carry the region code.
RowsOfUnit(parts, code) ==
    LET Of(r) == SubSeq(r.GEOID, 1, Len(code)) = code
    IN SelectSeq(Flatten(parts), Of)

\* C2: a region code that is no key of the lookup table has no population
\* task and no row in the global population data set; every region code found
\* has a geometry task, and its rows are a partition of the global geometry
\* data set.
C2_Coverage ==
    /\ \A i \in 1..Len(pops) : FIPS(pops[i].file) \in DOMAIN statelookup
    /\ \A i \in 1..Len(files) :
          FIPS(files[i]) \notin DOMAIN statelookup =>
              /\ ~tmp[PopOutput(files[i])].exists
              /\ RowsOfUnit(outputs.pop.parts, FIPS(files[i])) = << >>
    /\ Dispatched =>
          /\ Len(geos) = Len(files)
          /\ \A i \in 1..Len(files) : geos[i].file = files[i]
    /\ outputs.geo.written =>
          \A i \in 1..Len(files) :
              /\ tmp[GeoOutput(files[i])].exists
              /\ \E k \in 1..Len(outputs.geo.parts) :
                    outputs.geo.parts[k] = tmp[GeoOutput(files[i])].rows

\* A finished run that found the Virgin Islands' archive.
C2_Witness ==
    /\ pc = "done"
    /\ \E i \in 1..Len(files) :
          /\ FIPS(files[i]) = VI
          /\ RowsOfUnit(outputs.geo.parts, VI) # << >>

\* The scenario: exactly the units 06 and 72, unit 06 with three geometry
\* rows and three population rows of the same keys.
C3_Scenario ==
    /\ Len(files) = 2
    /\ {FIPS(files[i]) : i \in 1..Len(files)} = {CA, PR}
    /\ Len(tmp[[kind |-> "geo", code |-> CA]].rows) = 3
    /\ Len(tmp[[kind |-> "pop", code |-> CA]].rows) = 3
    /\ KeysOf(tmp[[kind |-> "pop", code |-> CA]].rows)
          = KeysOf(tmp[[kind |-> "geo", code |-> CA]].rows)

\* C3 as stated: in the scenario no population task is dispatched for 72,
\* and the finished run's population data set has rows of unit 06 only.
C3_AsStated ==
    C3_Scenario =>
        /\ \A i \in 1..Len(pops) : FIPS(pops[i].file) # PR
        /\ pc = "done" =>
              /\ RowsOfUnit(outputs.geo.parts, CA) # << >>
              /\ RowsOfUnit(outputs.geo.parts, PR) # << >>
              /\ RowsOfUnit(outputs.pop.parts, CA) # << >>
              /\ RowsOfUnit(outputs.pop.parts, PR) = << >>

\* C3, amended: 72 is a key of the lookup table, so in the scenario a
\* population task is dispatched for 72 too, and a finished run's geometry
\* and population data sets both have rows of both units.
C3_PuertoRicoCovered ==
    C3_Scenario =>
        /\ \E i \in 1..Len(pops) : FIPS(pops[i].file) = PR
        /\ pc = "done" =>
              /\ RowsOfUnit(outputs.geo.parts, CA) # << >>
              /\ RowsOfUnit(outputs.geo.parts, PR) # << >>
              /\ RowsOfUnit(outputs.pop.parts, CA) # << >>
              /\ RowsOfUnit(outputs.pop.parts, PR) # << >>

C3_Witness == C3_Scenario /\ pc = "done"

\* len(pd.merge(geo, pop)) for frames indexed by GEOID: the pairs of equal key.
JoinCount(g, p) ==
    Cardinality({ij \in (1..Len(g)) \X (1..Len(p)) : g[ij[1]].GEOID = p[ij[2]].GEOID})

\* C4: in a run that completes without error, for every unit with population
\* coverage the inner join of its geometry and population data sets on the
\* key has as many rows as its geometry data set.
C4_JoinParity ==
    pc = "done" =>
        \A i \in 1..Len(pops) :
            LET g == tmp[GeoOutput(pops[i].file)].rows
                p == tmp[PopOutput(pops[i].file)].rows
            IN JoinCount(g, p) = Len(g)

\* C5: once an extraction task has failed, main is still in the compute call
\* that ran it or has failed, and nothing was written under outputs/; and main
\* leaves a compute call only with a path of every task it dispatched.
C5_FailureAborts ==
    /\ SomeFailed(geos) => pc \in {"compute_geo", "failed"}
    /\ SomeFailed(pops) => pc \in {"compute_pop", "failed"}
    /\ (SomeFailed(geos) \/ SomeFailed(pops)) =>
          /\ ~outputs.dir
          /\ ~outputs.pop.written
          /\ ~outputs.geo.written
    /\ pc \notin {"start", "idle", "compute_geo", "failed"} =>
          Len(geo_files) = Len(geos)
    /\ pc \notin {"start", "idle", "compute_geo", "compute_pop", "failed"} =>
          Len(pop_files) = Len(pops)

\* A run that failed on one population task after another had returned.
C5_Witness ==
    /\ pc = "failed"
    /\ SomeFailed(pops)
    /\ \E i \in 1..Len(pops) : pops[i].st = "done"
    /\ ~outputs.dir

\* C6: after a run that completes without error, every key occurs at most
\* once in the global population data set and at most once in the global
\* geometry data set.
C6_GlobalKeysUnique ==
    pc = "done" =>
        /\ IndexIsUnique(Flatten(outputs.pop.parts))
        /\ IndexIsUnique(Flatten(outputs.geo.parts))

MergePcs ==
    {"concat", "assert", "mkdir", "write_pop", "spatial", "write_geo", "validate",
     "done"}

\* C8: while main is at any step of the merge phase, and whenever a result of
\* one exists, every dispatched geometry and population task has completed.
C8_Barrier ==
    (pc \in MergePcs \/ pop # NoDdf \/ geo # NoDdf \/ outputs.dir) =>
        /\ \A i \in 1..Len(geos) : geos[i].st = "done"
        /\ \A i \in 1..Len(pops) : pops[i].st = "done"

\* The merge phase begun after two tasks of each kind.
C8_Witness ==
    /\ pc = "concat"
    /\ Len(geos) = 2
    /\ Len(pops) = 2

\* No path under tmp/ was opened for writing by two tasks.
SingleWriter == \A p \in Paths : Cardinality(writers[p]) <= 1

\* C9 as stated: for any archives found, each per-unit path is written by at
\* most one task.
C9_AsStated == SingleWriter

DistinctTokens ==
    \A i, j \in 1..Len(files) : i # j => FIPS(files[i]) # FIPS(files[j])

\* C9, amended: when no two archives found carry the same region-code token,
\* each per-unit path is written by at most one task of the run.
C9_SingleWriterPerUnit == DistinctTokens => SingleWriter

\* Two geometry tasks writing at once.
C9_Witness ==
    /\ DistinctTokens
    /\ pc = "compute_geo"
    /\ Len(geos) = 2
    /\ geos[1].st = "running"
    /\ geos[2].st = "running"

\* The retained geo-header records: those of summary level 750.
Retained == {i \in 1..Len(popIn.geo) : popIn.geo[i].SUMLEV = SUMLEV_BLOCK}

\* The attribute a geo-header record is to carry.
AttributeOf(h) ==
    IF \E k \in 1..Len(popIn.seg) : popIn.seg[k].LOGRECNO = h.LOGRECNO
    THEN popIn.seg[CHOOSE k \in 1..Len(popIn.seg) :
                       popIn.seg[k].LOGRECNO = h.LOGRECNO].P0010001
    ELSE NaN

\* C7: when process_pop returns, the data set has one row per geo-header
\* record of summary level 750 and no other row, each under the record's
\* normalized key with the attributes of the segment-1 record of its record
\* number (empty when there is none), and the keys strictly ascending.
C7_OneRowPerBlock ==
    (popOut.done /\ ~popOut.raised) =>
        /\ Len(popOut.rows) = Cardinality(Retained)
        /\ \A i \in Retained :
              \E j \in 1..Len(popOut.rows) :
                  /\ popOut.rows[j].GEOID = Normalize(popIn.geo[i].GEOID)
                  /\ popOut.rows[j].P0010001 = AttributeOf(popIn.geo[i])
        /\ \A j \in 1..Len(popOut.rows) :
              \E i \in Retained :
                  popOut.rows[j].GEOID = Normalize(popIn.geo[i].GEOID)
        /\ \A j \in 1..(Len(popOut.rows) - 1) :
              LexLess(popOut.rows[j].GEOID, popOut.rows[j + 1].GEOID)

\* process_pop returned a row without attributes from source files with a
\* geo-header record of another summary level and a segment-1 record whose
\* record number no retained geo-header record carries.
C7_Witness ==
    /\ popOut.done
    /\ ~popOut.raised
    /\ \E i \in 1..Len(popIn.geo) : i \notin Retained
    /\ \E j \in 1..Len(popOut.rows) : popOut.rows[j].P0010001 = NaN
    /\ \E k \in 1..Len(popIn.seg) :
          \A i \in Retained : popIn.seg[k].LOGRECNO # popIn.geo[i].LOGRECNO

\* C10 as stated: for every raw identifier, normalizing the normalized
\* identifier returns it unchanged.
C10_AsStated == normOut.n = 2 => normOut.twice = normOut.once

\* The prefix followed by digits only.
PrefixedDigits(x) ==
    /\ Len(x) >= Len(GeoidPrefix)
    /\ SubSeq(x, 1, Len(GeoidPrefix)) = GeoidPrefix
    /\ \A i \in (Len(GeoidPrefix) + 1)..Len(x) : x[i] \in Digits

\* C10, amended: for every raw identifier that is the prefix 7500000US
\* followed by digits only, normalizing yields those digits, and normalizing
\* the result again returns it unchanged.
C10_IdempotentOnGeoids ==
    PrefixedDigits(normIn) =>
        /\ normOut.n >= 1 =>
              normOut.once = SubSeq(normIn, Len(GeoidPrefix) + 1, Len(normIn))
        /\ normOut.n = 2 => normOut.twice = normOut.once

C10_Witness ==
    /\ PrefixedDigits(normIn)
    /\ Len(normIn) > Len(GeoidPrefix)
    /\ normOut.n = 2

====
